---------------------------- MODULE Spec2Model ----------------------------
(***************************************************************************)
(* Model of cardboard::HeadTracker (sdk/head_tracker.cc): the tracking     *)
(* flag, the cached gyroscope sample, the two sensor producers, the        *)
(* rotation and position sample buffers, the drift-correction rotation     *)
(* difference_to_6DoF_, the stored viewport orientation, and the           *)
(* sensor-fusion filter the tracker drives.                                *)
(*                                                                         *)
(* Rotations are exact: every rotation the tracker's tables hold is a      *)
(* multiple of a quarter turn, so all rotations of the model live in the   *)
(* binary octahedral group.  A quaternion component is the pair <<a, b>>   *)
(* standing for (a + b*sqrt(2)) / 2; a quaternion is <<x, y, z, w>>.       *)
(***************************************************************************)
EXTENDS Integers, Sequences, FiniteSets, TLC

(***************************************************************************)
(* Rotation algebra (util/rotation.h, util/vectorutils.h).                 *)
(***************************************************************************)
cZero == <<0, 0>>
cOne == <<2, 0>>
cHalf == <<1, 0>>
cSqrtHalf == <<0, 1>>

cNeg(c) == <<0 - c[1], 0 - c[2]>>
cAdd(c, d) == <<c[1] + d[1], c[2] + d[2]>>
cSub(c, d) == <<c[1] - d[1], c[2] - d[2]>>
\* The numerator over 4 of the product of two components.
cMul4(c, d) == <<c[1] * d[1] + 2 * c[2] * d[2], c[1] * d[2] + c[2] * d[1]>>
\* A numerator over 4 brought back over 2 (exact on every product of the group).
cOver2(n) == <<n[1] \div 2, n[2] \div 2>>
\* c * sqrt(2).
cTimesSqrt2(c) == <<2 * c[2], c[1]>>

Quat(x, y, z, w) == <<x, y, z, w>>
QIdentity == Quat(cZero, cZero, cZero, cOne)
QZero == Quat(cZero, cZero, cZero, cZero)

\* Rotation::operator*: the quaternion product of r0 and r1.
QMul(r0, r1) ==
  Quat(cOver2(cAdd(cAdd(cMul4(r0[4], r1[1]), cMul4(r0[1], r1[4])),
                   cSub(cMul4(r0[2], r1[3]), cMul4(r0[3], r1[2])))),
       cOver2(cAdd(cAdd(cMul4(r0[4], r1[2]), cMul4(r0[2], r1[4])),
                   cSub(cMul4(r0[3], r1[1]), cMul4(r0[1], r1[3])))),
       cOver2(cAdd(cAdd(cMul4(r0[4], r1[3]), cMul4(r0[3], r1[4])),
                   cSub(cMul4(r0[1], r1[2]), cMul4(r0[2], r1[1])))),
       cOver2(cSub(cSub(cMul4(r0[4], r1[4]), cMul4(r0[1], r1[1])),
                   cAdd(cMul4(r0[2], r1[2]), cMul4(r0[3], r1[3])))))

\* Rotation::operator-: the inverse rotation (the conjugate quaternion).
QInverse(r) == Quat(cNeg(r[1]), cNeg(r[2]), cNeg(r[3]), r[4])

\* Four times the squared length of a quaternion, as a component numerator.
QNorm4(q) ==
  cAdd(cAdd(cMul4(q[1], q[1]), cMul4(q[2], q[2])),
       cAdd(cMul4(q[3], q[3]), cMul4(q[4], q[4])))

\* Normalized(): a unit quaternion is kept, one of length 1/sqrt(2) is scaled
\* by sqrt(2), and a quaternion of no length gives the zero quaternion.
Normalized(q) ==
  IF QNorm4(q) = <<4, 0>> THEN q
  ELSE IF QNorm4(q) = <<2, 0>>
       THEN Quat(cTimesSqrt2(q[1]), cTimesSqrt2(q[2]),
                 cTimesSqrt2(q[3]), cTimesSqrt2(q[4]))
       ELSE QZero

\* Rotation::FromQuaternion / Rotation::SetQuaternion: normalizes.
FromQuaternion(q) == Normalized(q)

IsUnit(q) == QNorm4(q) = <<4, 0>>

\* Rotation::FromYawPitchRoll(0, 0, roll) for roll a number of quarter turns.
FromRollQuarterTurns(k) ==
  CASE k % 4 = 0 -> QIdentity
    [] k % 4 = 1 -> Quat(cZero, cZero, cSqrtHalf, cSqrtHalf)
    [] k % 4 = 2 -> Quat(cZero, cZero, cOne, cZero)
    [] k % 4 = 3 -> Quat(cZero, cZero, cNeg(cSqrtHalf), cSqrtHalf)

(***************************************************************************)
(* Frame tables, indexed by CardboardViewportOrientation:                  *)
(* 0 landscape left, 1 landscape right, 2 portrait, 3 portrait upside down *)
(***************************************************************************)
Viewports == 0 .. 3

SensorToDisplayRotations(v) ==
  CASE v = 0 -> FromQuaternion(Quat(cZero, cZero, cSqrtHalf, cSqrtHalf))
    [] v = 1 -> FromQuaternion(Quat(cZero, cZero, cNeg(cSqrtHalf), cSqrtHalf))
    [] v = 2 -> FromQuaternion(Quat(cZero, cZero, cZero, cOne))
    [] v = 3 -> FromQuaternion(Quat(cZero, cZero, cOne, cZero))

EkfToHeadTrackerRotations(v) ==
  CASE v = 0 -> FromQuaternion(Quat(cHalf, cNeg(cHalf), cNeg(cHalf), cHalf))
    [] v = 1 -> FromQuaternion(Quat(cHalf, cHalf, cHalf, cHalf))
    [] v = 2 -> FromQuaternion(Quat(cSqrtHalf, cZero, cZero, cSqrtHalf))
    [] v = 3 -> FromQuaternion(Quat(cZero, cNeg(cSqrtHalf), cNeg(cSqrtHalf), cZero))

\* Variant: a symmetric table, the entry [new][current] given the roll of
\* the entry [current][new].
CompensationSymmetric(current, new) ==
  IF current = new THEN QIdentity
  ELSE IF {current, new} \in {{0, 1}, {2, 3}} THEN FromRollQuarterTurns(2)
  ELSE IF {current, new} \in {{0, 2}, {1, 3}} THEN FromRollQuarterTurns(-1)
  ELSE FromRollQuarterTurns(1)

\* The roll correction, in quarter turns, from viewport `current` to `new`.
ViewportChangeRotationCompensation(current, new) ==
  CASE current = 0 -> (CASE new = 0 -> QIdentity
                         [] new = 1 -> FromRollQuarterTurns(2)
                         [] new = 2 -> FromRollQuarterTurns(-1)
                         [] new = 3 -> FromRollQuarterTurns(1))
    [] current = 1 -> (CASE new = 0 -> FromRollQuarterTurns(2)
                         [] new = 1 -> QIdentity
                         [] new = 2 -> FromRollQuarterTurns(1)
                         [] new = 3 -> FromRollQuarterTurns(-1))
    [] current = 2 -> (CASE new = 0 -> FromRollQuarterTurns(1)
                         [] new = 1 -> FromRollQuarterTurns(-1)
                         [] new = 2 -> QIdentity
                         [] new = 3 -> FromRollQuarterTurns(2))
    [] current = 3 -> (CASE new = 0 -> FromRollQuarterTurns(-1)
                         [] new = 1 -> FromRollQuarterTurns(1)
                         [] new = 2 -> FromRollQuarterTurns(2)
                         [] new = 3 -> QIdentity)

rotation_samples == 10
position_samples == 3
max6DoFTimeDifference == 200000000

(***************************************************************************)
(* Inputs.  Timestamps straddle max6DoFTimeDifference; an angular velocity *)
(* is a quarter turn per 100 ms about one axis, or zero.                   *)
(***************************************************************************)
GyroscopeTimes == {199999999, 200000001}
PoseTimes == {199999999, 400000001}
PoseViewports == {0, 2}
Zero3 == <<0, 0, 0>>
Velocities == {Zero3, <<0, 1, 0>>}
\* The external samples: the tracked position moves as its clock advances.
SixDoFSamples ==
  {[timestamp_ns |-> 0, pos |-> <<1, 2, 3>>], [timestamp_ns |-> 1, pos |-> <<4, 2, 3>>]}
GyroscopeSamples ==
  {[system_timestamp |-> t + 1, sensor_timestamp_ns |-> t, data |-> w] :
     t \in GyroscopeTimes, w \in Velocities}
AccelerometerSamples ==
  {[system_timestamp |-> 1, sensor_timestamp_ns |-> 0, data |-> <<0, 0, 1>>]}
\* The external orientation quaternions handed to AddSixDoFData.
SixDoFOrientations == {QIdentity, Quat(cHalf, cHalf, cHalf, cHalf)}

\* How many samples a run records in each buffer.
MaxRotationSamples == 2
MaxPositionSamples == 2

(***************************************************************************)
(* The sensor-fusion filter (SensorFusionEkf), at its interface.           *)
(***************************************************************************)
NoSample == [system_timestamp |-> 0, sensor_timestamp_ns |-> 0, data |-> Zero3]

FusionInit ==
  [rotation |-> QIdentity, velocity |-> Zero3, timestamp |-> 0]

\* The rotation of one quarter turn about the axis of velocity w.
QuarterTurn(w) ==
  Quat(IF w[1] = 0 THEN cZero ELSE cSqrtHalf,
       IF w[2] = 0 THEN cZero ELSE cSqrtHalf,
       IF w[3] = 0 THEN cZero ELSE cSqrtHalf,
       cSqrtHalf)

\* q composed with itself k times, for k in 0 .. 7.
QPower(q, k) ==
  LET q2 == QMul(q, q)
      q4 == QMul(q2, q2)
  IN  CASE k = 0 -> QIdentity
        [] k = 1 -> q
        [] k = 2 -> q2
        [] k = 3 -> QMul(q, q2)
        [] k = 4 -> q4
        [] k = 5 -> QMul(q, q4)
        [] k = 6 -> QMul(q2, q4)
        [] k = 7 -> QMul(q, QMul(q2, q4))

\* The whole quarter turns made in dt ns at one quarter turn per 100 ms.
QuarterTurnsIn(dt) ==
  IF dt >= 0 THEN dt \div 100000000 ELSE 0 - ((0 - dt) \div 100000000)

\* The rotation reached from r after turning with velocity w for dt ns.
Integrate(r, w, dt) ==
  IF w = Zero3 THEN r
  ELSE QMul(QPower(QuarterTurn(w), QuarterTurnsIn(dt) % 8), r)

\* SensorFusionEkf::PredictRotation: forward projection from the last sample.
PredictRotation(f, timestamp_ns) ==
  Integrate(f.rotation, f.velocity, timestamp_ns - f.timestamp)

\* SensorFusionEkf::ProcessGyroscopeSample.
ProcessGyroscopeSample(f, sample) ==
  [f EXCEPT !.rotation = Integrate(f.rotation, f.velocity,
                                   sample.sensor_timestamp_ns - f.timestamp),
            !.velocity = sample.data,
            !.timestamp = sample.sensor_timestamp_ns]

\* SensorFusionEkf::ProcessAccelerometerSample.
ProcessAccelerometerSample(f, sample) == f

\* SensorFusionEkf::Reset: the current orientation becomes the identity pose.
Reset(f) == [f EXCEPT !.rotation = QIdentity]

\* SensorFusionEkf::RotateSensorSpaceToStartSpaceTransformation.
RotateSensorSpaceToStartSpaceTransformation(f, r) ==
  [f EXCEPT !.rotation = QMul(f.rotation, r)]

(***************************************************************************)
(* The sample buffers (RotationData, PositionData): a sequence of          *)
(* [value, timestamp], newest last.                                        *)
(***************************************************************************)
AddSample(buffer, capacity, value, timestamp) ==
  LET grown == Append(buffer, [value |-> value, timestamp |-> timestamp])
  IN  IF Len(grown) > capacity THEN Tail(grown) ELSE grown

IsValid(buffer) == Len(buffer) >= 2
GetLatestData(buffer) == buffer[Len(buffer)].value
GetLatestTimestamp(buffer) == buffer[Len(buffer)].timestamp

\* What a position extrapolation gives when the latest two samples are
\* distinct positions at the same instant (a division by zero).
NotANumber3 == <<"nan", "nan", "nan">>

\* PositionData::GetExtrapolatedForTimeStamp: the latest sample advanced by
\* the velocity between the latest two samples.
GetExtrapolatedForTimeStamp(buffer, timestamp_ns) ==
  LET a == buffer[Len(buffer) - 1]
      b == buffer[Len(buffer)]
  IN  IF a.value = b.value THEN b.value
      ELSE IF a.timestamp = b.timestamp THEN NotANumber3
      ELSE [i \in 1 .. 3 |->
              b.value[i] + ((b.value[i] - a.value[i]) * (timestamp_ns - b.timestamp))
                             \div (b.timestamp - a.timestamp)]

\* RotationData::GetInterpolatedForTimeStamp.  The fraction between the
\* bracketing samples is rounded down: the newest sample not after
\* timestamp_ns, or the oldest sample when every sample is later.
GetInterpolatedForTimeStamp(buffer, timestamp_ns) ==
  LET before == {i \in 1 .. Len(buffer) : buffer[i].timestamp <= timestamp_ns}
  IN  IF before = {} THEN buffer[1].value
      ELSE buffer[CHOOSE i \in before : \A j \in before : j <= i].value

(***************************************************************************)
(* The neck model (sensors/neck_model.h), in millimetres.                  *)
(***************************************************************************)
\* The vector v (integers) rotated by the unit quaternion q.
RotateVector(q, v) ==
  LET p == Quat(<<2 * v[1], 0>>, <<2 * v[2], 0>>, <<2 * v[3], 0>>, cZero)
      r == QMul(QMul(q, p), QInverse(q))
  IN  <<r[1][1] \div 2, r[2][1] \div 2, r[3][1] \div 2>>

\* ApplyNeckModel(orientation, 1.0): the neck pivot offset turned by the
\* orientation, less the vertical offset.
ApplyNeckModel(orientation) ==
  LET o == RotateVector(orientation, <<0, 75, -80>>)
  IN  <<o[1], o[2] - 75, o[3]>>

Add3(p, q) == <<p[1] + q[1], p[2] + q[2], p[3] + q[3]>>

(***************************************************************************)
(* The tracker.                                                            *)
(***************************************************************************)
VARIABLES
  is_tracking_,                          \* bool is_tracking_
  sensor_fusion_,                        \* the filter's state
  latest_gyroscope_data_,                \* the cached gyroscope sample
  accel_sensor_,                         \* TRUE while the producer polls
  gyro_sensor_,                          \* TRUE while the producer polls
  rotation_data_,                        \* RotationData
  position_data_,                        \* PositionData
  difference_to_6DoF_,                   \* the drift-correction rotation
  viewport_orientation_,
  is_viewport_orientation_initialized_,
  op,                                    \* the last operation and its arguments
  calls,                                 \* what it did, in program order
  ret,                                   \* what it returned
  reads,                                 \* the buffer reads it made
  render,                                \* where the render thread is
  sensor                                 \* where the sensor thread is

tracker ==
  <<is_tracking_, sensor_fusion_, latest_gyroscope_data_, accel_sensor_,
    gyro_sensor_, rotation_data_, position_data_, difference_to_6DoF_,
    viewport_orientation_, is_viewport_orientation_initialized_>>

threads == <<render, sensor>>

vars == <<tracker, op, calls, ret, reads, threads>>

Idle == [pc |-> "idle"]

NoReturn == [path |-> "none"]
Call(name, arg) == [call |-> name, arg |-> arg]

\* HeadTracker::HeadTracker.  viewport_orientation_ is left unset.
Init ==
  /\ is_tracking_ = FALSE
  /\ sensor_fusion_ = FusionInit
  /\ latest_gyroscope_data_ = NoSample
  /\ accel_sensor_ = FALSE
  /\ gyro_sensor_ = FALSE
  /\ rotation_data_ = <<>>
  /\ position_data_ = <<>>
  /\ difference_to_6DoF_ = QIdentity
  /\ viewport_orientation_ \in Viewports
  /\ is_viewport_orientation_initialized_ = FALSE
  /\ op = [name |-> "HeadTracker"]
  /\ calls = <<>>
  /\ ret = NoReturn
  /\ reads = {}
  /\ render = Idle
  /\ sensor = Idle

\* HeadTracker::UnregisterCallbacks, as the calls it makes.
UnregisterCallbacks ==
  <<Call("StopSensorPolling", "accel"), Call("StopSensorPolling", "gyro")>>

\* HeadTracker::RegisterCallbacks, as the calls it makes.
RegisterCallbacks ==
  <<Call("StartSensorPolling", "accel"), Call("StartSensorPolling", "gyro")>>

\* Variant: the cached sample forwarded as it is, its velocity kept.
KeepVelocityEvent(latest) == latest

\* The gyroscope event Pause() synthesizes from the cached sample.
ZeroVelocityEvent(latest) == [latest EXCEPT !.data = Zero3]

\* Variant: Pause() handing the synthesized sample to the filter itself,
\* the cached sample left as it was.
PauseForwardingDirectly ==
  /\ UNCHANGED threads
  /\ op' = [name |-> "Pause"]
  /\ ret' = NoReturn
  /\ reads' = {}
  /\ IF ~is_tracking_
     THEN /\ calls' = <<>>
          /\ UNCHANGED tracker
     ELSE LET event == ZeroVelocityEvent(latest_gyroscope_data_)
          IN  /\ accel_sensor_' = FALSE
              /\ gyro_sensor_' = FALSE
              /\ sensor_fusion_' = ProcessGyroscopeSample(sensor_fusion_, event)
              /\ is_tracking_' = FALSE
              /\ calls' = UnregisterCallbacks
                            \o <<Call("ProcessGyroscopeSample", event),
                                 Call("is_tracking_", FALSE)>>
              /\ UNCHANGED <<latest_gyroscope_data_, rotation_data_, position_data_,
                             difference_to_6DoF_, viewport_orientation_,
                             is_viewport_orientation_initialized_>>

\* Variant: Pause() without the synthesized gyroscope sample.
PauseWithoutSample ==
  /\ UNCHANGED threads
  /\ op' = [name |-> "Pause"]
  /\ ret' = NoReturn
  /\ reads' = {}
  /\ IF ~is_tracking_
     THEN /\ calls' = <<>>
          /\ UNCHANGED tracker
     ELSE /\ accel_sensor_' = FALSE
          /\ gyro_sensor_' = FALSE
          /\ is_tracking_' = FALSE
          /\ calls' = UnregisterCallbacks \o <<Call("is_tracking_", FALSE)>>
          /\ UNCHANGED <<sensor_fusion_, latest_gyroscope_data_, rotation_data_,
                         position_data_, difference_to_6DoF_, viewport_orientation_,
                         is_viewport_orientation_initialized_>>

\* HeadTracker::Pause
Pause ==
  /\ UNCHANGED threads
  /\ op' = [name |-> "Pause"]
  /\ ret' = NoReturn
  /\ reads' = {}
  /\ IF ~is_tracking_
     THEN /\ calls' = <<>>
          /\ UNCHANGED tracker
     ELSE LET event == ZeroVelocityEvent(latest_gyroscope_data_)
          IN  /\ accel_sensor_' = FALSE
              /\ gyro_sensor_' = FALSE
              \* OnGyroscopeData(event), is_tracking_ still being true
              /\ latest_gyroscope_data_' = event
              /\ sensor_fusion_' = ProcessGyroscopeSample(sensor_fusion_, event)
              /\ is_tracking_' = FALSE
              /\ calls' = UnregisterCallbacks
                            \o <<Call("ProcessGyroscopeSample", event),
                                 Call("is_tracking_", FALSE)>>
              /\ UNCHANGED <<rotation_data_, position_data_, difference_to_6DoF_,
                             viewport_orientation_,
                             is_viewport_orientation_initialized_>>

\* Variant: Resume() that sets the flag and starts no producer.
ResumeWithoutRegistering ==
  /\ op' = [name |-> "Resume"]
  /\ ret' = NoReturn
  /\ reads' = {}
  /\ is_tracking_' = TRUE
  /\ calls' = <<Call("is_tracking_", TRUE)>>
  /\ UNCHANGED <<sensor_fusion_, latest_gyroscope_data_, accel_sensor_, gyro_sensor_,
                 rotation_data_, position_data_, difference_to_6DoF_,
                 viewport_orientation_, is_viewport_orientation_initialized_>>

\* HeadTracker::Resume, its effect on the tracker.
ResumeBody ==
  /\ op' = [name |-> "Resume"]
  /\ ret' = NoReturn
  /\ reads' = {}
  /\ is_tracking_' = TRUE
  /\ accel_sensor_' = TRUE
  /\ gyro_sensor_' = TRUE
  /\ calls' = <<Call("is_tracking_", TRUE)>> \o RegisterCallbacks
  /\ UNCHANGED <<sensor_fusion_, latest_gyroscope_data_, rotation_data_,
                 position_data_, difference_to_6DoF_, viewport_orientation_,
                 is_viewport_orientation_initialized_>>

Resume == ResumeBody /\ UNCHANGED threads

\* Variant: Recenter() that also empties the buffers and the drift correction.
RecenterClearingBuffers ==
  /\ op' = [name |-> "Recenter"]
  /\ ret' = NoReturn
  /\ reads' = {}
  /\ sensor_fusion_' = Reset(sensor_fusion_)
  /\ calls' = <<Call("Reset", <<>>)>>
  /\ rotation_data_' = <<>>
  /\ position_data_' = <<>>
  /\ difference_to_6DoF_' = QIdentity
  /\ UNCHANGED <<is_tracking_, latest_gyroscope_data_, accel_sensor_, gyro_sensor_,
                 viewport_orientation_, is_viewport_orientation_initialized_>>

\* HeadTracker::Recenter, its effect on the tracker.
RecenterBody ==
  /\ op' = [name |-> "Recenter"]
  /\ ret' = NoReturn
  /\ reads' = {}
  /\ sensor_fusion_' = Reset(sensor_fusion_)
  /\ calls' = <<Call("Reset", <<>>)>>
  /\ UNCHANGED <<is_tracking_, latest_gyroscope_data_, accel_sensor_, gyro_sensor_,
                 rotation_data_, position_data_, difference_to_6DoF_,
                 viewport_orientation_, is_viewport_orientation_initialized_>>

Recenter == RecenterBody /\ UNCHANGED threads

\* HeadTracker::OnAccelerometerData
OnAccelerometerData(event) ==
  /\ UNCHANGED threads
  /\ op' = [name |-> "OnAccelerometerData", event |-> event]
  /\ ret' = NoReturn
  /\ reads' = {}
  /\ IF ~is_tracking_
     THEN /\ calls' = <<>>
          /\ UNCHANGED tracker
     ELSE /\ sensor_fusion_' = ProcessAccelerometerSample(sensor_fusion_, event)
          /\ calls' = <<Call("ProcessAccelerometerSample", event)>>
          /\ UNCHANGED <<is_tracking_, latest_gyroscope_data_, accel_sensor_,
                         gyro_sensor_, rotation_data_, position_data_,
                         difference_to_6DoF_, viewport_orientation_,
                         is_viewport_orientation_initialized_>>

\* Variant: OnGyroscopeData without the test of the tracking flag.
OnGyroscopeDataUnguarded(event) ==
  /\ UNCHANGED threads
  /\ op' = [name |-> "OnGyroscopeData", event |-> event]
  /\ ret' = NoReturn
  /\ reads' = {}
  /\ latest_gyroscope_data_' = event
  /\ sensor_fusion_' = ProcessGyroscopeSample(sensor_fusion_, event)
  /\ calls' = <<Call("ProcessGyroscopeSample", event)>>
  /\ UNCHANGED <<is_tracking_, accel_sensor_, gyro_sensor_, rotation_data_,
                 position_data_, difference_to_6DoF_, viewport_orientation_,
                 is_viewport_orientation_initialized_>>

\* HeadTracker::OnGyroscopeData
OnGyroscopeData(event) ==
  /\ UNCHANGED threads
  /\ op' = [name |-> "OnGyroscopeData", event |-> event]
  /\ ret' = NoReturn
  /\ reads' = {}
  /\ IF ~is_tracking_
     THEN /\ calls' = <<>>
          /\ UNCHANGED tracker
     ELSE /\ latest_gyroscope_data_' = event
          /\ sensor_fusion_' = ProcessGyroscopeSample(sensor_fusion_, event)
          /\ calls' = <<Call("ProcessGyroscopeSample", event)>>
          /\ UNCHANGED <<is_tracking_, accel_sensor_, gyro_sensor_, rotation_data_,
                         position_data_, difference_to_6DoF_, viewport_orientation_,
                         is_viewport_orientation_initialized_>>

\* HeadTracker::GetRotation
GetRotation(viewport_orientation, timestamp_ns) ==
  QMul(QMul(SensorToDisplayRotations(viewport_orientation),
            PredictRotation(sensor_fusion_, timestamp_ns)),
       EkfToHeadTrackerRotations(viewport_orientation))

\* Variant: the test without the initialized flag.
ViewportChangedUninitialized(viewport_orientation) ==
  viewport_orientation # viewport_orientation_

\* GetPose's test of the viewport orientation against the stored one.
ViewportChanged(viewport_orientation) ==
  /\ is_viewport_orientation_initialized_
  /\ viewport_orientation # viewport_orientation_

\* Variant: the difference taken unsigned, so that a position sample later
\* than the filter's state is never recent.
SixDoFIsRecentUnsigned ==
  /\ IsValid(position_data_)
  /\ sensor_fusion_.timestamp >= GetLatestTimestamp(position_data_)
  /\ sensor_fusion_.timestamp - GetLatestTimestamp(position_data_)
       < max6DoFTimeDifference

\* Variant: any valid position buffer counts as recent.
SixDoFIsRecentWheneverValid == IsValid(position_data_)

\* Variant: a difference of exactly max6DoFTimeDifference counts as recent.
SixDoFIsRecentInclusive ==
  /\ IsValid(position_data_)
  /\ sensor_fusion_.timestamp - GetLatestTimestamp(position_data_)
       <= max6DoFTimeDifference

\* GetPose's test that the external 6DoF data is recent.
SixDoFIsRecent ==
  /\ IsValid(position_data_)
  /\ sensor_fusion_.timestamp - GetLatestTimestamp(position_data_)
       < max6DoFTimeDifference

\* The rotation with the drift correction taken out: rotation * -difference_to_6DoF_.
FreshOrientation(rotation) == QMul(rotation, QInverse(difference_to_6DoF_))

\* The pose GetPose returns when the 6DoF data is recent.
FreshPose(rotation, timestamp_ns) ==
  [path |-> "fresh",
   orientation |-> FreshOrientation(rotation),
   position |-> GetExtrapolatedForTimeStamp(position_data_, timestamp_ns)]

\* Variant: the neck-model position without the last known 6DoF position.
StalePoseNeckOnly(rotation) ==
  [path |-> "stale", orientation |-> rotation, position |-> ApplyNeckModel(rotation)]

\* The pose GetPose returns when it is not.
StalePose(rotation) ==
  [path |-> "stale",
   orientation |-> rotation,
   position |-> IF IsValid(position_data_)
                THEN Add3(ApplyNeckModel(rotation), GetLatestData(position_data_))
                ELSE ApplyNeckModel(rotation)]

\* The orientation GetPose returns for a query in the current state.
Orientation(timestamp_ns, viewport_orientation) ==
  IF SixDoFIsRecent
  THEN FreshOrientation(GetRotation(viewport_orientation, timestamp_ns))
  ELSE GetRotation(viewport_orientation, timestamp_ns)

\* A read of a buffer's samples, with whether the buffer was valid then.
Read(name, read, buffer) == [buffer |-> name, read |-> read, valid |-> IsValid(buffer)]

\* Variant: the latest timestamp and the latest position read without IsValid().
GetPoseReadsUnguarded ==
  {Read("position_data_", "GetLatestTimestamp", position_data_)}
    \cup (IF SixDoFIsRecent
          THEN {Read("position_data_", "GetExtrapolatedForTimeStamp", position_data_)}
          ELSE {Read("position_data_", "GetLatestData", position_data_)})

\* The reads GetPose makes of the position buffer: the latest timestamp behind
\* IsValid() in the freshness test, then the extrapolated position on the
\* fresh path, or the latest position behind IsValid() on the stale path.
GetPoseReads ==
  (IF IsValid(position_data_)
   THEN {Read("position_data_", "GetLatestTimestamp", position_data_)}
   ELSE {})
    \cup (IF SixDoFIsRecent
          THEN {Read("position_data_", "GetExtrapolatedForTimeStamp", position_data_)}
          ELSE IF IsValid(position_data_)
               THEN {Read("position_data_", "GetLatestData", position_data_)}
               ELSE {})

\* The pose GetPose returns for a query in the current state.
Pose(timestamp_ns, viewport_orientation) ==
  IF SixDoFIsRecent
  THEN FreshPose(GetRotation(viewport_orientation, timestamp_ns), timestamp_ns)
  ELSE StalePose(GetRotation(viewport_orientation, timestamp_ns))

\* Variant: GetPose recording the orientation it returns, drift correction
\* included.
GetPoseRecordingReturned(timestamp_ns, viewport_orientation) ==
  LET rotation == GetRotation(viewport_orientation, timestamp_ns)
      compensation ==
        ViewportChangeRotationCompensation(viewport_orientation_, viewport_orientation)
  IN  /\ op' = [name |-> "GetPose", timestamp_ns |-> timestamp_ns,
                viewport_orientation |-> viewport_orientation]
      /\ IF ViewportChanged(viewport_orientation)
         THEN /\ sensor_fusion_' =
                   RotateSensorSpaceToStartSpaceTransformation(sensor_fusion_, compensation)
              /\ calls' = <<Call("RotateSensorSpaceToStartSpaceTransformation",
                                 compensation)>>
         ELSE /\ sensor_fusion_' = sensor_fusion_
              /\ calls' = <<>>
      /\ viewport_orientation_' = viewport_orientation
      /\ is_viewport_orientation_initialized_' = TRUE
      /\ rotation_data_' =
           AddSample(rotation_data_, rotation_samples,
                     Orientation(timestamp_ns, viewport_orientation), timestamp_ns)
      /\ ret' = Pose(timestamp_ns, viewport_orientation)
      /\ reads' = GetPoseReads
      /\ UNCHANGED <<is_tracking_, latest_gyroscope_data_, accel_sensor_, gyro_sensor_,
                     position_data_, difference_to_6DoF_>>

\* HeadTracker::GetPose, its effect on the tracker.
GetPoseBody(timestamp_ns, viewport_orientation) ==
  LET rotation == GetRotation(viewport_orientation, timestamp_ns)
      compensation ==
        ViewportChangeRotationCompensation(viewport_orientation_, viewport_orientation)
  IN  /\ op' = [name |-> "GetPose", timestamp_ns |-> timestamp_ns,
                viewport_orientation |-> viewport_orientation]
      /\ IF ViewportChanged(viewport_orientation)
         THEN /\ sensor_fusion_' =
                   RotateSensorSpaceToStartSpaceTransformation(sensor_fusion_, compensation)
              /\ calls' = <<Call("RotateSensorSpaceToStartSpaceTransformation",
                                 compensation)>>
         ELSE /\ sensor_fusion_' = sensor_fusion_
              /\ calls' = <<>>
      /\ viewport_orientation_' = viewport_orientation
      /\ is_viewport_orientation_initialized_' = TRUE
      /\ rotation_data_' =
           AddSample(rotation_data_, rotation_samples, rotation, timestamp_ns)
      /\ ret' = Pose(timestamp_ns, viewport_orientation)
      /\ reads' = GetPoseReads
      /\ UNCHANGED <<is_tracking_, latest_gyroscope_data_, accel_sensor_, gyro_sensor_,
                     position_data_, difference_to_6DoF_>>

GetPose(timestamp_ns, viewport_orientation) ==
  /\ Len(rotation_data_) < MaxRotationSamples
  /\ GetPoseBody(timestamp_ns, viewport_orientation)
  /\ UNCHANGED threads

\* The reads AddSixDoFData makes once its sample is in the position buffer:
\* the interpolated rotation, when both buffers are valid.
AddSixDoFDataReads(positions) ==
  IF IsValid(positions) /\ IsValid(rotation_data_)
  THEN {Read("rotation_data_", "GetInterpolatedForTimeStamp", rotation_data_)}
  ELSE {}

\* Variant: the difference stored whole, its x and z components kept.
DriftCorrectionAllAxes(rotations, timestamp_ns, orientation) ==
  QMul(FromQuaternion(GetInterpolatedForTimeStamp(rotations, timestamp_ns)),
       QInverse(FromQuaternion(Quat(cZero, orientation[2], cZero, orientation[4]))))

\* The drift correction AddSixDoFData computes: the rotation estimate at the
\* time of the 6DoF sample against the 6DoF yaw, about the y axis only.
DriftCorrection(rotations, timestamp_ns, orientation) ==
  LET gyroAtTimeOfSixDoF ==
        FromQuaternion(GetInterpolatedForTimeStamp(rotations, timestamp_ns))
      sixDoFRotation ==
        FromQuaternion(Quat(cZero, orientation[2], cZero, orientation[4]))
      diffQ == QMul(gyroAtTimeOfSixDoF, QInverse(sixDoFRotation))
  IN  Normalized(Quat(cZero, diffQ[2], cZero, diffQ[4]))

\* Variant: AddSixDoFData testing the position buffer as it was before the
\* call's own sample.
AddSixDoFDataValidBefore(timestamp_ns, pos, orientation) ==
  /\ op' = [name |-> "AddSixDoFData", timestamp_ns |-> timestamp_ns, pos |-> pos,
            orientation |-> orientation]
  /\ ret' = NoReturn
  /\ calls' = <<>>
  /\ IF ~is_tracking_
     THEN /\ reads' = {}
          /\ UNCHANGED tracker
     ELSE /\ Len(position_data_) < MaxPositionSamples
          /\ reads' = AddSixDoFDataReads(position_data_)
          /\ position_data_' =
               AddSample(position_data_, position_samples, pos, timestamp_ns)
          /\ difference_to_6DoF_' =
               IF IsValid(position_data_) /\ IsValid(rotation_data_)
               THEN DriftCorrection(rotation_data_, timestamp_ns, orientation)
               ELSE difference_to_6DoF_
          /\ UNCHANGED <<is_tracking_, sensor_fusion_, latest_gyroscope_data_,
                         accel_sensor_, gyro_sensor_, rotation_data_,
                         viewport_orientation_,
                         is_viewport_orientation_initialized_>>

\* Variant: AddSixDoFData without the test of the tracking flag.
AddSixDoFDataUnguarded(timestamp_ns, pos, orientation) ==
  /\ op' = [name |-> "AddSixDoFData", timestamp_ns |-> timestamp_ns, pos |-> pos,
            orientation |-> orientation]
  /\ ret' = NoReturn
  /\ calls' = <<>>
  /\ Len(position_data_) < MaxPositionSamples
  /\ reads' = AddSixDoFDataReads(
                 AddSample(position_data_, position_samples, pos, timestamp_ns))
  /\ position_data_' =
       AddSample(position_data_, position_samples, pos, timestamp_ns)
  /\ difference_to_6DoF_' =
       IF IsValid(position_data_') /\ IsValid(rotation_data_)
       THEN DriftCorrection(rotation_data_, timestamp_ns, orientation)
       ELSE difference_to_6DoF_
  /\ UNCHANGED <<is_tracking_, sensor_fusion_, latest_gyroscope_data_,
                 accel_sensor_, gyro_sensor_, rotation_data_,
                 viewport_orientation_, is_viewport_orientation_initialized_>>

\* HeadTracker::AddSixDoFData, its effect on the tracker.
AddSixDoFDataBody(timestamp_ns, pos, orientation) ==
  /\ op' = [name |-> "AddSixDoFData", timestamp_ns |-> timestamp_ns, pos |-> pos,
            orientation |-> orientation]
  /\ ret' = NoReturn
  /\ calls' = <<>>
  /\ IF ~is_tracking_
     THEN /\ reads' = {}
          /\ UNCHANGED tracker
     ELSE /\ Len(position_data_) < MaxPositionSamples
          /\ reads' = AddSixDoFDataReads(
                         AddSample(position_data_, position_samples, pos, timestamp_ns))
          /\ position_data_' =
               AddSample(position_data_, position_samples, pos, timestamp_ns)
          /\ difference_to_6DoF_' =
               IF IsValid(position_data_') /\ IsValid(rotation_data_)
               THEN DriftCorrection(rotation_data_, timestamp_ns, orientation)
               ELSE difference_to_6DoF_
          /\ UNCHANGED <<is_tracking_, sensor_fusion_, latest_gyroscope_data_,
                         accel_sensor_, gyro_sensor_, rotation_data_,
                         viewport_orientation_,
                         is_viewport_orientation_initialized_>>

AddSixDoFData(timestamp_ns, pos, orientation) ==
  AddSixDoFDataBody(timestamp_ns, pos, orientation) /\ UNCHANGED threads

Next ==
  \/ Pause
  \/ Resume
  \/ Recenter
  \/ \E event \in AccelerometerSamples : OnAccelerometerData(event)
  \/ \E event \in GyroscopeSamples : OnGyroscopeData(event)
  \/ \E timestamp_ns \in PoseTimes, viewport_orientation \in PoseViewports :
       GetPose(timestamp_ns, viewport_orientation)
  \/ \E sample \in SixDoFSamples, orientation \in SixDoFOrientations :
       AddSixDoFData(sample.timestamp_ns, sample.pos, orientation)

Spec == Init /\ [][Next]_vars

(***************************************************************************)
(* The tracker fed external orientations of every kind: with a yaw part,   *)
(* and without one (a half turn about the x axis, whose y and w are zero). *)
(***************************************************************************)
DriftOrientations == SixDoFOrientations \cup {Quat(cOne, cZero, cZero, cZero)}

NextDrift ==
  \/ Resume
  \/ Pause
  \/ \E event \in GyroscopeSamples : OnGyroscopeData(event)
  \/ \E timestamp_ns \in PoseTimes, viewport_orientation \in PoseViewports :
       GetPose(timestamp_ns, viewport_orientation)
  \/ \E sample \in SixDoFSamples, orientation \in DriftOrientations :
       AddSixDoFData(sample.timestamp_ns, sample.pos, orientation)

SpecDrift == Init /\ [][NextDrift]_vars

(***************************************************************************)
(* The tracker queried once more after both buffers are valid, so that a   *)
(* GetPose call meets a drift correction an AddSixDoFData call computed.   *)
(***************************************************************************)
MaxLongRotationSamples == 3

LongPoseViewports == {0}

LongGyroscopeSamples == {sample \in GyroscopeSamples : sample.data # Zero3}

GetPoseLong(timestamp_ns, viewport_orientation) ==
  /\ Len(rotation_data_) < MaxLongRotationSamples
  /\ GetPoseBody(timestamp_ns, viewport_orientation)
  /\ UNCHANGED threads

NextLong ==
  \/ Resume
  \/ Pause
  \/ \E event \in LongGyroscopeSamples : OnGyroscopeData(event)
  \/ \E timestamp_ns \in PoseTimes, viewport_orientation \in LongPoseViewports :
       GetPoseLong(timestamp_ns, viewport_orientation)
  \/ \E sample \in SixDoFSamples, orientation \in SixDoFOrientations :
       AddSixDoFData(sample.timestamp_ns, sample.pos, orientation)

SpecLong == Init /\ [][NextLong]_vars

(***************************************************************************)
(* The tracker queried under each of the four viewport orientations.       *)
(***************************************************************************)
NextViewport ==
  \/ Recenter
  \/ \E timestamp_ns \in PoseTimes, viewport_orientation \in Viewports :
       GetPose(timestamp_ns, viewport_orientation)

SpecViewport == Init /\ [][NextViewport]_vars

(***************************************************************************)
(* The tracker under two threads.  HeadTracker takes no lock: the render   *)
(* thread calls GetPose, AddSixDoFData, Pause, Resume and Recenter, and    *)
(* the producer's thread delivers the sensor callbacks while it polls.  A  *)
(* thread is inside a body from the call to the return.                    *)
(***************************************************************************)
ConcPoseTimes == {400000001}
ConcPoseViewports == {0, 2}
ConcGyroscopeSamples ==
  {[system_timestamp |-> 200000002, sensor_timestamp_ns |-> 200000001,
    data |-> <<0, 1, 0>>]}
ConcSixDoFSamples == {[timestamp_ns |-> 1, pos |-> <<4, 2, 3>>]}
ConcSixDoFOrientations == {QIdentity}

InBody(thread) == thread.pc # "idle"

SensorFrame ==
  UNCHANGED <<is_tracking_, accel_sensor_, gyro_sensor_, rotation_data_,
              position_data_, difference_to_6DoF_, viewport_orientation_,
              is_viewport_orientation_initialized_, render>>

\* The render thread calls GetPose.
CallGetPose(timestamp_ns, viewport_orientation) ==
  /\ render = Idle
  /\ Len(rotation_data_) < MaxRotationSamples
  /\ render' = [pc |-> "GetPose", timestamp_ns |-> timestamp_ns,
                viewport_orientation |-> viewport_orientation]
  /\ UNCHANGED <<tracker, op, calls, ret, reads, sensor>>

\* GetPose runs and returns.
ReturnGetPose ==
  /\ render.pc = "GetPose"
  /\ GetPoseBody(render.timestamp_ns, render.viewport_orientation)
  /\ render' = Idle
  /\ UNCHANGED sensor

\* The render thread calls AddSixDoFData.
CallAddSixDoFData(timestamp_ns, pos, orientation) ==
  /\ render = Idle
  /\ Len(position_data_) < MaxPositionSamples
  /\ render' = [pc |-> "AddSixDoFData", timestamp_ns |-> timestamp_ns,
                pos |-> pos, orientation |-> orientation]
  /\ UNCHANGED <<tracker, op, calls, ret, reads, sensor>>

\* AddSixDoFData runs and returns.
ReturnAddSixDoFData ==
  /\ render.pc = "AddSixDoFData"
  /\ AddSixDoFDataBody(render.timestamp_ns, render.pos, render.orientation)
  /\ render' = Idle
  /\ UNCHANGED sensor

\* The render thread calls Resume.
CallResume ==
  /\ render = Idle
  /\ render' = [pc |-> "Resume"]
  /\ UNCHANGED <<tracker, op, calls, ret, reads, sensor>>

\* Resume runs and returns.
ReturnResume ==
  /\ render.pc = "Resume"
  /\ ResumeBody
  /\ render' = Idle
  /\ UNCHANGED sensor

\* The render thread calls Recenter.
CallRecenter ==
  /\ render = Idle
  /\ render' = [pc |-> "Recenter"]
  /\ UNCHANGED <<tracker, op, calls, ret, reads, sensor>>

\* Recenter runs and returns.
ReturnRecenter ==
  /\ render.pc = "Recenter"
  /\ RecenterBody
  /\ render' = Idle
  /\ UNCHANGED sensor

\* The render thread calls Pause.
CallPause ==
  /\ render = Idle
  /\ render' = [pc |-> "Pause"]
  /\ UNCHANGED <<tracker, op, calls, ret, reads, sensor>>

\* Pause() tests the tracking flag and returns when it is false.
PauseTestsFlag ==
  /\ render.pc = "Pause"
  /\ render' = IF is_tracking_ THEN [pc |-> "Pause:UnregisterCallbacks"] ELSE Idle
  /\ op' = [name |-> "Pause"]
  /\ calls' = <<>>
  /\ ret' = NoReturn
  /\ reads' = {}
  /\ UNCHANGED <<tracker, sensor>>

\* Pause() stops both producers.  StopSensorPolling does not wait: a
\* callback already invoked runs on, and no new one is invoked.
PauseUnregisterCallbacks ==
  /\ render.pc = "Pause:UnregisterCallbacks"
  /\ accel_sensor_' = FALSE
  /\ gyro_sensor_' = FALSE
  /\ calls' = UnregisterCallbacks
  /\ render' = [pc |-> "Pause:OnGyroscopeData"]
  /\ UNCHANGED <<is_tracking_, sensor_fusion_, latest_gyroscope_data_,
                 rotation_data_, position_data_, difference_to_6DoF_,
                 viewport_orientation_, is_viewport_orientation_initialized_,
                 op, ret, reads, sensor>>

\* Pause() forwards the zero-velocity sample through OnGyroscopeData.
PauseOnGyroscopeData ==
  /\ render.pc = "Pause:OnGyroscopeData"
  /\ LET event == ZeroVelocityEvent(latest_gyroscope_data_)
     IN  IF is_tracking_
         THEN /\ latest_gyroscope_data_' = event
              /\ sensor_fusion_' = ProcessGyroscopeSample(sensor_fusion_, event)
              /\ calls' = <<Call("ProcessGyroscopeSample", event)>>
         ELSE /\ calls' = <<>>
              /\ UNCHANGED <<latest_gyroscope_data_, sensor_fusion_>>
  /\ render' = [pc |-> "Pause:is_tracking_"]
  /\ UNCHANGED <<is_tracking_, accel_sensor_, gyro_sensor_, rotation_data_,
                 position_data_, difference_to_6DoF_, viewport_orientation_,
                 is_viewport_orientation_initialized_, op, ret, reads, sensor>>

\* Pause() clears the tracking flag and returns.
PauseClearsFlag ==
  /\ render.pc = "Pause:is_tracking_"
  /\ is_tracking_' = FALSE
  /\ calls' = <<Call("is_tracking_", FALSE)>>
  /\ render' = Idle
  /\ UNCHANGED <<sensor_fusion_, latest_gyroscope_data_, accel_sensor_,
                 gyro_sensor_, rotation_data_, position_data_,
                 difference_to_6DoF_, viewport_orientation_,
                 is_viewport_orientation_initialized_, op, ret, reads, sensor>>

\* The producer's thread, polling, invokes a sensor callback.
Deliver(name, event) ==
  /\ sensor = Idle
  /\ IF name = "OnGyroscopeData" THEN gyro_sensor_ ELSE accel_sensor_
  /\ sensor' = [pc |-> name, event |-> event]
  /\ UNCHANGED <<tracker, op, calls, ret, reads, render>>

\* The callback tests the tracking flag and returns when it is false.
CallbackTestsFlag ==
  /\ sensor.pc \in {"OnGyroscopeData", "OnAccelerometerData"}
  /\ IF is_tracking_
     THEN /\ sensor' = [sensor EXCEPT !.pc = sensor.pc \o ":forward"]
          /\ UNCHANGED <<op, calls, ret, reads>>
     ELSE /\ sensor' = Idle
          /\ op' = [name |-> sensor.pc, event |-> sensor.event]
          /\ calls' = <<>>
          /\ ret' = NoReturn
          /\ reads' = {}
  /\ UNCHANGED <<tracker, render>>

\* OnGyroscopeData caches its sample, forwards it to the filter and returns.
GyroscopeCallbackForwards ==
  /\ sensor.pc = "OnGyroscopeData:forward"
  /\ latest_gyroscope_data_' = sensor.event
  /\ sensor_fusion_' = ProcessGyroscopeSample(sensor_fusion_, sensor.event)
  /\ op' = [name |-> "OnGyroscopeData", event |-> sensor.event]
  /\ calls' = <<Call("ProcessGyroscopeSample", sensor.event)>>
  /\ ret' = NoReturn
  /\ reads' = {}
  /\ sensor' = Idle
  /\ SensorFrame

\* OnAccelerometerData forwards its sample to the filter and returns.
AccelerometerCallbackForwards ==
  /\ sensor.pc = "OnAccelerometerData:forward"
  /\ sensor_fusion_' = ProcessAccelerometerSample(sensor_fusion_, sensor.event)
  /\ op' = [name |-> "OnAccelerometerData", event |-> sensor.event]
  /\ calls' = <<Call("ProcessAccelerometerSample", sensor.event)>>
  /\ ret' = NoReturn
  /\ reads' = {}
  /\ sensor' = Idle
  /\ UNCHANGED latest_gyroscope_data_
  /\ SensorFrame

RenderThread ==
  \/ \E timestamp_ns \in ConcPoseTimes, viewport_orientation \in ConcPoseViewports :
       CallGetPose(timestamp_ns, viewport_orientation)
  \/ ReturnGetPose
  \/ \E sample \in ConcSixDoFSamples, orientation \in ConcSixDoFOrientations :
       CallAddSixDoFData(sample.timestamp_ns, sample.pos, orientation)
  \/ ReturnAddSixDoFData
  \/ CallResume
  \/ ReturnResume
  \/ CallRecenter
  \/ ReturnRecenter
  \/ CallPause
  \/ PauseTestsFlag
  \/ PauseUnregisterCallbacks
  \/ PauseOnGyroscopeData
  \/ PauseClearsFlag

SensorThread ==
  \/ \E event \in ConcGyroscopeSamples : Deliver("OnGyroscopeData", event)
  \/ \E event \in AccelerometerSamples : Deliver("OnAccelerometerData", event)
  \/ CallbackTestsFlag
  \/ GyroscopeCallbackForwards
  \/ AccelerometerCallbackForwards

NextConc == RenderThread \/ SensorThread

SpecConc == Init /\ [][NextConc]_vars

(***************************************************************************)
(* Claims.                                                                 *)
(***************************************************************************)
\* `new` is `old` with the sample (value, timestamp) recorded last, the
\* oldest sample dropped when `old` was full.
Records(old, new, capacity, value, timestamp) ==
  /\ new # <<>>
  /\ new[Len(new)] = [value |-> value, timestamp |-> timestamp]
  /\ SubSeq(new, 1, Len(new) - 1) = IF Len(old) < capacity THEN old ELSE Tail(old)

\* C1 as stated: every AddSixDoFData call, in every tracker state, records
\* (position, timestamp) in the position buffer.
C1_RecordsInEveryState ==
  [][op'.name = "AddSixDoFData" =>
       Records(position_data_, position_data_', position_samples,
               op'.pos, op'.timestamp_ns)]_vars

\* C1 amended: an AddSixDoFData call made while the tracking flag is true
\* records (position, timestamp) in the position buffer; a call made while
\* the flag is false changes nothing in the tracker.
C1_RecordsWhileTracking ==
  [][op'.name = "AddSixDoFData" =>
       IF is_tracking_
       THEN Records(position_data_, position_data_', position_samples,
                    op'.pos, op'.timestamp_ns)
       ELSE UNCHANGED tracker]_vars

\* An AddSixDoFData call arrived after a Pause(): the buffer still ends with
\* the sample recorded while tracking, not with the call's.
C1_Witness ==
  /\ op.name = "AddSixDoFData"
  /\ ~is_tracking_
  /\ position_data_ # <<>>
  /\ GetLatestData(position_data_) # op.pos

\* C2: Pause() while not tracking changes nothing and calls nothing; while
\* tracking it stops both producers, then forwards to the filter one
\* gyroscope sample with the cached sample's timestamps and zero angular
\* velocity, then clears the tracking flag.
C2_Pause ==
  [][op'.name = "Pause" =>
       IF ~is_tracking_
       THEN calls' = <<>> /\ UNCHANGED tracker
       ELSE /\ calls' =
                 <<Call("StopSensorPolling", "accel"),
                   Call("StopSensorPolling", "gyro"),
                   Call("ProcessGyroscopeSample",
                        [system_timestamp |->
                           latest_gyroscope_data_.system_timestamp,
                         sensor_timestamp_ns |->
                           latest_gyroscope_data_.sensor_timestamp_ns,
                         data |-> Zero3]),
                   Call("is_tracking_", FALSE)>>
            /\ ~is_tracking_'
            /\ ~accel_sensor_'
            /\ ~gyro_sensor_']_vars

\* Pause() has acted on a tracker whose cached sample came from the gyroscope.
C2_Witness ==
  /\ op.name = "Pause"
  /\ Len(calls) = 4
  /\ calls[3].arg.sensor_timestamp_ns = 200000001
  /\ ~is_tracking_

\* Lets a claim about GetPose speak of the state GetPose left.
AfterGetPose == op.name = "GetPose"

\* C3 as stated: with the latest external sample at t = 0, the query
\* timestamp decides the path: a query past 200,000,000 takes the stale path
\* and a query before it (199,999,999) the fresh path.
C3_QueryTimestampDecides ==
  (AfterGetPose /\ IsValid(position_data_) /\ GetLatestTimestamp(position_data_) = 0)
    => /\ op.timestamp_ns > 200000000 => ret.path = "stale"
       /\ op.timestamp_ns = 199999999 => ret.path = "fresh"

\* C3 amended: with the latest external sample at t = 0 in a valid position
\* buffer, the filter's latest rotation-state timestamp decides the path,
\* whatever the query timestamp: stale at 200,000,001, fresh at 199,999,999.
C3_FilterTimestampDecides ==
  (AfterGetPose /\ IsValid(position_data_) /\ GetLatestTimestamp(position_data_) = 0)
    => /\ sensor_fusion_.timestamp = 200000001 => ret.path = "stale"
       /\ sensor_fusion_.timestamp = 199999999 => ret.path = "fresh"

\* A query past the threshold that took the fresh path.
C3_Witness ==
  /\ AfterGetPose
  /\ IsValid(position_data_)
  /\ GetLatestTimestamp(position_data_) = 0
  /\ sensor_fusion_.timestamp = 199999999
  /\ op.timestamp_ns = 400000001
  /\ ret.path = "fresh"

\* C4: GetPose takes the fresh path exactly when the position buffer is
\* valid and the filter's latest rotation-state timestamp less the buffer's
\* latest timestamp is strictly below 200,000,000.
C4_FreshIff ==
  AfterGetPose =>
    (ret.path = "fresh" <=>
       /\ Len(position_data_) >= 2
       /\ sensor_fusion_.timestamp - position_data_[Len(position_data_)].timestamp
            < 200000000)

\* A difference of exactly 200,000,000 took the stale path.
C4_Witness ==
  /\ AfterGetPose
  /\ IsValid(position_data_)
  /\ sensor_fusion_.timestamp - GetLatestTimestamp(position_data_) = 200000000
  /\ ret.path = "stale"

ChangesViewport ==
  /\ op'.name = "GetPose"
  /\ is_viewport_orientation_initialized_
  /\ op'.viewport_orientation # viewport_orientation_

\* The operations C6 lets occur between Pause() and the next Resume().
WhilePaused ==
  /\ ~is_tracking_
  /\ ~is_tracking_'
  /\ op'.name \in {"OnAccelerometerData", "OnGyroscopeData", "AddSixDoFData",
                   "Pause", "GetPose"}
  /\ ~ChangesViewport

\* C6: while the tracking flag is false the orientation GetPose returns for
\* a viewport orientation does not depend on the query timestamp, a GetPose
\* call with the stored viewport orientation returns it, and sensor
\* callbacks, AddSixDoFData, further Pause() calls and such GetPose calls
\* change nothing it is computed from: it stays as at the moment of pause.
C6_PauseFreezesOrientation ==
  /\ [](~is_tracking_ =>
         /\ \A v \in PoseViewports, t1 \in PoseTimes, t2 \in PoseTimes :
              t1 < t2 => Orientation(t1, v) = Orientation(t2, v)
         /\ (AfterGetPose /\ calls = <<>>) =>
              ret.orientation = Orientation(op.timestamp_ns, op.viewport_orientation))
  /\ [][WhilePaused =>
          UNCHANGED <<sensor_fusion_, position_data_, difference_to_6DoF_>>]_vars

\* GetPose answered a query far past the last gyroscope sample of a tracker
\* paused while it was turning, and its orientation differs from the one
\* predicted for the same instant before the pause.
C6_Witness ==
  /\ AfterGetPose
  /\ ~is_tracking_
  /\ Len(rotation_data_) = 2
  /\ sensor_fusion_.timestamp = 199999999
  /\ latest_gyroscope_data_.sensor_timestamp_ns = 199999999
  /\ op.timestamp_ns = 400000001
  /\ calls = <<>>
  /\ rotation_data_[1].timestamp = 400000001
  /\ rotation_data_[1].value # rotation_data_[2].value

\* C7: GetPose tells the filter to compensate exactly when its viewport
\* orientation differs from the one the previous GetPose stored, never on
\* the first GetPose call, with the rotation
\* ViewportChangeRotationCompensation[previous][new]; and every GetPose call
\* stores its viewport orientation.
C7_ViewportCompensation ==
  [][op'.name = "GetPose" =>
       /\ is_viewport_orientation_initialized_ <=> rotation_data_ # <<>>
       /\ calls' =
            IF /\ rotation_data_ # <<>>
               /\ op'.viewport_orientation # viewport_orientation_
            THEN <<Call("RotateSensorSpaceToStartSpaceTransformation",
                        ViewportChangeRotationCompensation(
                          viewport_orientation_, op'.viewport_orientation))>>
            ELSE <<>>
       /\ viewport_orientation_' = op'.viewport_orientation
       /\ is_viewport_orientation_initialized_']_vars

\* A GetPose call compensated for a change from landscape left to portrait.
C7_Witness ==
  /\ AfterGetPose
  /\ viewport_orientation_ = 2
  /\ calls = <<Call("RotateSensorSpaceToStartSpaceTransformation",
                    FromRollQuarterTurns(-1))>>

\* C8: only AddSixDoFData changes the drift-correction rotation and the
\* position buffer, only GetPose changes the rotation buffer, and Recenter()
\* changes nothing of the tracker but the filter.
C8_Frames ==
  [][/\ op'.name # "AddSixDoFData" =>
          UNCHANGED <<difference_to_6DoF_, position_data_>>
     /\ op'.name # "GetPose" => UNCHANGED rotation_data_
     /\ op'.name = "Recenter" =>
          UNCHANGED <<is_tracking_, latest_gyroscope_data_, accel_sensor_,
                      gyro_sensor_, rotation_data_, position_data_,
                      difference_to_6DoF_, viewport_orientation_,
                      is_viewport_orientation_initialized_>>]_vars

\* Recenter() ran over filled buffers and a drift correction that is not the
\* identity.
C8_Witness ==
  /\ op.name = "Recenter"
  /\ IsValid(rotation_data_)
  /\ IsValid(position_data_)
  /\ difference_to_6DoF_ # QIdentity
  /\ is_tracking_

\* C9: a sensor callback invoked while the tracking flag is false forwards
\* nothing and changes nothing; invoked while tracking it forwards exactly
\* its sample to the filter, and only the gyroscope callback replaces the
\* cached gyroscope sample.
C9_SensorCallbacks ==
  [][op'.name \in {"OnAccelerometerData", "OnGyroscopeData"} =>
       IF ~is_tracking_
       THEN calls' = <<>> /\ UNCHANGED tracker
       ELSE /\ op'.name = "OnAccelerometerData" =>
                 /\ calls' = <<Call("ProcessAccelerometerSample", op'.event)>>
                 /\ UNCHANGED latest_gyroscope_data_
            /\ op'.name = "OnGyroscopeData" =>
                 /\ calls' = <<Call("ProcessGyroscopeSample", op'.event)>>
                 /\ latest_gyroscope_data_' = op'.event
            /\ UNCHANGED <<is_tracking_, accel_sensor_, gyro_sensor_,
                           rotation_data_, position_data_, difference_to_6DoF_,
                           viewport_orientation_,
                           is_viewport_orientation_initialized_>>]_vars

\* A gyroscope sample arrived after Pause(): the cached sample is still the
\* zero-velocity one, not the sample delivered.
C9_Witness ==
  /\ op.name = "OnGyroscopeData"
  /\ ~is_tracking_
  /\ calls = <<>>
  /\ op.event.data # Zero3
  /\ latest_gyroscope_data_.sensor_timestamp_ns # 0
  /\ latest_gyroscope_data_ # op.event

\* C10 as stated: in no interleaving of the sensor-callback thread with the
\* render thread are a sensor callback and one of GetPose, AddSixDoFData,
\* Pause and Resume inside their bodies at the same time.
C10_MutualExclusion ==
  ~(/\ InBody(sensor)
    /\ render.pc \in {"GetPose", "AddSixDoFData", "Resume", "Pause",
                      "Pause:UnregisterCallbacks", "Pause:OnGyroscopeData",
                      "Pause:is_tracking_"})


\* C11: in every reachable state the drift-correction quaternion is yaw-only:
\* its x and z components are zero.
C11_YawOnly ==
  /\ difference_to_6DoF_[1] = cZero
  /\ difference_to_6DoF_[3] = cZero

\* AddSixDoFData replaced the drift correction by a turn about the y axis,
\* from a rotation estimate that also turns about the other axes.
C11_Witness ==
  /\ op.name = "AddSixDoFData"
  /\ difference_to_6DoF_ # QIdentity
  /\ difference_to_6DoF_ # QZero
  /\ IsValid(rotation_data_)
  /\ \E i \in 1 .. Len(rotation_data_) :
       rotation_data_[i].value[1] # cZero \/ rotation_data_[i].value[3] # cZero

\* C12 as stated: after every AddSixDoFData call, for every rotation estimate
\* and every external orientation quaternion, the drift-correction quaternion
\* is a unit quaternion.
C12_AlwaysUnit ==
  op.name = "AddSixDoFData" => IsUnit(difference_to_6DoF_)


\* C13: every GetPose call returns a pose, on the fresh or on the stale path;
\* no GetPose or AddSixDoFData call reads the latest data, the latest
\* timestamp, the interpolated or the extrapolated value of a buffer that is
\* not valid; and with an invalid position buffer GetPose returns the
\* neck-model position with no offset.
C13_GuardedReads ==
  /\ \A r \in reads : r.valid
  /\ AfterGetPose =>
       /\ ret.path \in {"fresh", "stale"}
       /\ Len(ret.orientation) = 4
       /\ Len(ret.position) = 3
       /\ ~IsValid(position_data_) =>
            /\ ret.path = "stale"
            /\ ret.position = ApplyNeckModel(ret.orientation)
            /\ reads = {}

\* GetPose answered on a tracker never resumed, with no sensor sample and no
\* external sample, and read nothing.
C13_Witness ==
  /\ AfterGetPose
  /\ ~is_tracking_
  /\ sensor_fusion_ = FusionInit
  /\ position_data_ = <<>>
  /\ Len(rotation_data_) = 1
  /\ reads = {}
  /\ ret.position = ApplyNeckModel(ret.orientation)


\* C14: Resume() from any state sets the tracking flag and starts both
\* producers, and between calls both producers poll exactly when the
\* tracking flag is true.
C14_ProducersFollowFlag ==
  /\ [](/\ accel_sensor_ <=> is_tracking_
        /\ gyro_sensor_ <=> is_tracking_)
  /\ [][op'.name = "Resume" =>
          /\ is_tracking_'
          /\ accel_sensor_'
          /\ gyro_sensor_'
          /\ calls' = <<Call("is_tracking_", TRUE),
                        Call("StartSensorPolling", "accel"),
                        Call("StartSensorPolling", "gyro")>>]_vars

\* Resume() ran on a tracker paused after a gyroscope sample.
C14_Witness ==
  /\ op.name = "Resume"
  /\ is_tracking_
  /\ accel_sensor_
  /\ gyro_sensor_
  /\ latest_gyroscope_data_.sensor_timestamp_ns # 0
  /\ latest_gyroscope_data_.data = Zero3


\* The quaternions q and r stand for the same rotation.
SameRotation(q, r) ==
  \/ q = r
  \/ q = Quat(cNeg(r[1]), cNeg(r[2]), cNeg(r[3]), cNeg(r[4]))

\* C15: for any two viewport orientations A and B the compensation from A to
\* B composed with the one from B to A is the identity rotation, so that the
\* filter compensated there and back has the rotation it started with; and
\* every diagonal entry is the identity.
C15_CompensationRoundTrip ==
  \A a \in Viewports, b \in Viewports :
    /\ SameRotation(QMul(ViewportChangeRotationCompensation(a, b),
                         ViewportChangeRotationCompensation(b, a)),
                    QIdentity)
    /\ SameRotation(
         RotateSensorSpaceToStartSpaceTransformation(
           RotateSensorSpaceToStartSpaceTransformation(
             sensor_fusion_, ViewportChangeRotationCompensation(a, b)),
           ViewportChangeRotationCompensation(b, a)).rotation,
         sensor_fusion_.rotation)
    /\ ViewportChangeRotationCompensation(a, a) = QIdentity

\* GetPose compensated for a change from portrait upside down to landscape
\* right, the one entry of that column with a quarter turn of positive roll.
C15_Witness ==
  /\ AfterGetPose
  /\ viewport_orientation_ = 1
  /\ Len(rotation_data_) = 2
  /\ calls = <<Call("RotateSensorSpaceToStartSpaceTransformation",
                    FromRollQuarterTurns(1))>>
  /\ sensor_fusion_.rotation = FromRollQuarterTurns(1)

\* C16: an AddSixDoFData call made while tracking replaces the drift
\* correction, by the one computed from the interpolated rotation estimate
\* and the call's orientation, exactly when both buffers are valid once the
\* call's own sample is in the position buffer; otherwise the drift
\* correction keeps its value and the rotation buffer is not read.
C16_ReplacesWhenBothValid ==
  [][(op'.name = "AddSixDoFData" /\ is_tracking_) =>
       IF Len(position_data_') >= 2 /\ Len(rotation_data_) >= 2
       THEN /\ difference_to_6DoF_' =
                 DriftCorrection(rotation_data_, op'.timestamp_ns, op'.orientation)
            /\ reads' # {}
       ELSE /\ UNCHANGED difference_to_6DoF_
            /\ reads' = {}]_vars

\* The second external sample made the position buffer valid and the drift
\* correction was replaced by that very call.
C16_Witness ==
  /\ op.name = "AddSixDoFData"
  /\ is_tracking_
  /\ Len(position_data_) = 2
  /\ Len(rotation_data_) = 2
  /\ reads # {}
  /\ difference_to_6DoF_ # QIdentity


\* C17: every GetPose call, tracking or paused and on either path, records
\* exactly one sample in the rotation buffer: the display rotation, before
\* any drift correction, with the query timestamp.  On the fresh path the
\* orientation returned is the recorded rotation times the inverse of the
\* drift correction; on the stale path it is the recorded rotation.
C17_RecordsDisplayRotation ==
  [][op'.name = "GetPose" =>
       /\ Records(rotation_data_, rotation_data_', rotation_samples,
                  GetRotation(op'.viewport_orientation, op'.timestamp_ns),
                  op'.timestamp_ns)
       /\ ret'.path \in {"fresh", "stale"}
       /\ ret'.path = "fresh" =>
            ret'.orientation =
              QMul(rotation_data_'[Len(rotation_data_')].value,
                   QInverse(difference_to_6DoF_))
       /\ ret'.path = "stale" =>
            ret'.orientation = rotation_data_'[Len(rotation_data_')].value
       /\ UNCHANGED difference_to_6DoF_]_vars

\* A paused tracker answered on the fresh path with a drift correction that
\* is not the identity: the orientation returned is not the one recorded.
C17_Witness ==
  /\ AfterGetPose
  /\ ~is_tracking_
  /\ ret.path = "fresh"
  /\ difference_to_6DoF_ # QIdentity
  /\ ret.orientation # rotation_data_[Len(rotation_data_)].value
  /\ rotation_data_[Len(rotation_data_)].timestamp = op.timestamp_ns


\* The step is a sensor callback handing its sample to the filter.
ForwardsSample ==
  /\ sensor.pc \in {"OnGyroscopeData:forward", "OnAccelerometerData:forward"}
  /\ sensor' = Idle

C19_PauseBeforeAnySample ==
  [][(op'.name = "Pause" /\ is_tracking_) =>
       /\ latest_gyroscope_data_ = NoSample =>
            /\ Len(calls') = 4
            /\ calls'[3] =
                 Call("ProcessGyroscopeSample",
                      [system_timestamp |-> 0, sensor_timestamp_ns |-> 0,
                       data |-> Zero3])
       /\ latest_gyroscope_data_' =
            [system_timestamp |-> latest_gyroscope_data_.system_timestamp,
             sensor_timestamp_ns |-> latest_gyroscope_data_.sensor_timestamp_ns,
             data |-> Zero3]]_vars

\* Pause() ran on a tracker resumed and never reached by a gyroscope sample.
C19_Witness ==
  /\ op.name = "Pause"
  /\ ~is_tracking_
  /\ Len(calls) = 4
  /\ calls[3].arg.sensor_timestamp_ns = 0
  /\ latest_gyroscope_data_ = NoSample
  /\ sensor_fusion_ = FusionInit


\* C20: when the position buffer is valid and its latest timestamp is later
\* than the filter's latest rotation-state timestamp, GetPose takes the
\* fresh path and returns the extrapolated position, however far the query
\* timestamp is from the latest external sample.
C20_FreshWhenFilterBehind ==
  (/\ AfterGetPose
   /\ Len(position_data_) >= 2
   /\ position_data_[Len(position_data_)].timestamp > sensor_fusion_.timestamp)
    => /\ ret.path = "fresh"
       /\ ret.position = GetExtrapolatedForTimeStamp(position_data_, op.timestamp_ns)

\* The filter has processed no sample, the latest external sample is at
\* t = 1, and a query 400 ms later took the fresh path.
C20_Witness ==
  /\ AfterGetPose
  /\ IsValid(position_data_)
  /\ sensor_fusion_.timestamp = 0
  /\ GetLatestTimestamp(position_data_) = 1
  /\ op.timestamp_ns = 400000001
  /\ ret.path = "fresh"

=============================================================================
